---- MODULE Spec2Model ----
(***************************************************************************)
(* Model of engine/src/bridge_converter.rs: BridgeConverter::convert and   *)
(* the BridgeConversion it runs over one bindgen module.                    *)
(*                                                                          *)
(* Identifiers (type names, function names) are sequences of characters,   *)
(* so that "{}_{}" formatting, prefix tests and suffixes are computed.      *)
(* Parameter names and attribute names are only compared and are strings.   *)
(***************************************************************************)
EXTENDS Naturals, Sequences, FiniteSets, TLC

VARIABLES
  bindings,              \* convert's `bindings: ItemMod` (input)
  pod_requests,          \* BridgeConverter.pod_requests (input)
  include_list,          \* BridgeConverter.include_list (input)
  extra_inclusion,       \* convert's `extra_inclusion` (input)
  renames,               \* convert's `renames` (input)
  pc,                    \* position inside convert / convert_items
  idx,                   \* position of `for item in items`
  bindgen_mod,           \* BridgeConversion.bindgen_mod
  all_items,             \* BridgeConversion.all_items
  bridge_items,          \* BridgeConversion.bridge_items
  extern_c_mod,          \* BridgeConversion.extern_c_mod
  extern_c_mod_items,    \* BridgeConversion.extern_c_mod_items
  additional_cpp_needs,  \* BridgeConversion.additional_cpp_needs
  types_found,           \* BridgeConversion.types_found
  bindgen_items,         \* BridgeConversion.bindgen_items
  byvalue_checker,       \* BridgeConversion.byvalue_checker
  result                 \* what convert returned to the caller

vars ==
  << bindings, pod_requests, include_list, extra_inclusion, renames, pc, idx,
     bindgen_mod, all_items, bridge_items, extern_c_mod, extern_c_mod_items,
     additional_cpp_needs, types_found, bindgen_items, byvalue_checker, result >>

inputVars ==
  << bindings, pod_requests, include_list, extra_inclusion, renames >>

\* Bound of the model: the longest input module body.
MaxItems ==
  3

-----------------------------------------------------------------------------
(* Identifiers *)

Underscore ==
  <<"_">>

\* format!("{}_{}", a, b)
FormatJoin(a, b) ==
  a \o Underscore \o b

IdA ==
  <<"A">>

IdAB ==
  <<"A", "B">>

IdD ==
  <<"D">>

IdE ==
  <<"E">>

IdInt ==
  <<"i">>

IdStdString ==
  <<"s">>

IdCxxString ==
  <<"X">>

IdGen ==
  <<"G">>

IdNew ==
  <<"n", "e", "w">>

IdMakeUnique ==
  <<"m", "a", "k", "e", "_", "u", "n", "i", "q", "u", "e">>

IdUniquePtr ==
  <<"U">>

-----------------------------------------------------------------------------
(* syn::Type.  One record shape for every variant:                          *)
(*   k = "path"   name<args>           (Type::Path, one segment)            *)
(*   k = "ref"    & [mut] args[1]      (Type::Reference)                    *)
(*   k = "ptr"    * const|mut args[1]  (Type::Ptr)                          *)
(*   k = "other"  any other variant (array, tuple, bare fn, ...) holding    *)
(*                the types args                                             *)
(*   k = "default" is ReturnType::Default (no return type)                  *)

TPath(n, a) ==
  [k |-> "path", mut |-> FALSE, name |-> n, args |-> a]

TRef(m, e) ==
  [k |-> "ref", mut |-> m, name |-> <<>>, args |-> <<e>>]

TPtr(m, e) ==
  [k |-> "ptr", mut |-> m, name |-> <<>>, args |-> <<e>>]

TOther(e) ==
  [k |-> "other", mut |-> FALSE, name |-> <<>>, args |-> <<e>>]

ReturnDefault ==
  [k |-> "default", mut |-> FALSE, name |-> <<>>, args |-> <<>>]

\* TypeName::from_ident(..).to_ident(): "May replace non-canonical names
\* e.g. std_string with canonical equivalents, e.g. CxxString".
ToIdent(n) ==
  IF n = IdStdString THEN IdCxxString ELSE n

\* TypeName::to_cpp_name: the foreign spelling of the type.
ToCppName(n) ==
  IF n = IdCxxString THEN IdStdString ELSE <<":", ":">> \o n

\* TypeName::prefixes: the type's name starts the function name; the answer
\* is what follows the name and the separator ("Type_Method" -> "Method").
HasPrefix(cn, s) ==
  /\ Len(s) > Len(cn) + 1
  /\ SubSeq(s, 1, Len(cn)) = cn

Prefixes(cn, s) ==
  IF HasPrefix(cn, s)
    THEN [some |-> TRUE, suffix |-> SubSeq(s, Len(cn) + 2, Len(s))]
    ELSE [some |-> FALSE, suffix |-> <<>>]

RECURSIVE ConvertType(_)

RECURSIVE ConvertPunctuated(_)

\* convert_punctuated: every generic argument that is a type is converted.
ConvertPunctuated(pun) ==
  IF pun = <<>> THEN <<>>
  ELSE <<ConvertType(Head(pun))>> \o ConvertPunctuated(Tail(pun))

\* convert_type_path: the segment's ident is canonicalised, its
\* angle-bracketed arguments are converted.
ConvertTypePath(typ) ==
  [typ EXCEPT !.name = ToIdent(typ.name), !.args = ConvertPunctuated(typ.args)]

\* convert_ptr_to_reference: & #mutability #elem
ConvertPtrToReference(ptr) ==
  TRef(ptr.mut, ConvertType(ptr.args[1]))

\* convert_type
ConvertType(ty) ==
  CASE ty.k = "path" -> ConvertTypePath(ty)
    [] ty.k = "ref" -> [ty EXCEPT !.args = <<ConvertType(ty.args[1])>>]
    [] ty.k = "ptr" -> ConvertPtrToReference(ty)
    [] OTHER -> ty

\* convert_return_type
ConvertReturnType(rt) ==
  IF rt.k = "default" THEN ReturnDefault ELSE ConvertType(rt)

-----------------------------------------------------------------------------
(* The triviality classifier (byvalue_checker.rs) and the conversion        *)
(* descriptors (additional_cpp_generator.rs).                                *)

\* Scalars the classifier knows from the start.
KnownPods ==
  {IdInt}

\* ByValueChecker::new()
NewChecker ==
  [pods |-> KnownPods, structs |-> <<>>]

\* ingest_pod_type (an enum)
IngestPodType(chk, n) ==
  [chk EXCEPT !.pods = @ \cup {n}]

\* ingest_struct
IngestStruct(chk, s) ==
  [chk EXCEPT !.structs = Append(@, s)]

RECURSIVE PodClosure(_, _, _)

\* A struct is trivial iff each of its fields has a trivial type; resolved
\* transitively (n rounds reach every nesting depth of n structs).
PodClosure(pods, structs, n) ==
  IF n = 0 THEN pods
  ELSE PodClosure(
         pods \cup { structs[i].name : i \in
                       { j \in 1..Len(structs) :
                           \A f \in 1..Len(structs[j].fields.tys) :
                             /\ structs[j].fields.tys[f].k = "path"
                             /\ structs[j].fields.tys[f].name \in pods } },
         structs, n - 1)

\* ByValueChecker::is_pod
IsPod(chk, n) ==
  n \in PodClosure(chk.pods, chk.structs, Len(chk.structs))

RECURSIVE FirstUnsafe(_, _)

\* ByValueChecker::satisfy_requests: Err(name) for the first requested type
\* that is not trivial.
FirstUnsafe(chk, reqs) ==
  IF reqs = <<>> THEN [ok |-> TRUE, name |-> <<>>]
  ELSE IF ~IsPod(chk, Head(reqs)) THEN [ok |-> FALSE, name |-> Head(reqs)]
  ELSE FirstUnsafe(chk, Tail(reqs))

SatisfyRequests(chk, reqs) ==
  FirstUnsafe(chk, reqs)

\* TypeName::from_type_path: the name of the path's segment.
TypeNameFromTypePath(p) ==
  p.name

\* TypeName::from_type: a path is named as from_type_path names it; any
\* other type (a reference) is no aggregate and is classified as a scalar.
TypeNameFromType(ty) ==
  IF ty.k = "path" THEN TypeNameFromTypePath(ty) ELSE IdInt

\* ArgumentConversion::unconverted / from_unique_ptr / to_unique_ptr
Unconverted(ty) ==
  [kind |-> "unconverted", ty |-> ty]

FromUniquePtr(ty) ==
  [kind |-> "from_unique_ptr", ty |-> ty]

ToUniquePtr(ty) ==
  [kind |-> "to_unique_ptr", ty |-> ty]

\* ArgumentConversion::work_needed
WorkNeeded(c) ==
  c.kind # "unconverted"

-----------------------------------------------------------------------------
(* Foreign function signature rewrite *)

\* convert_fn_arg, the mutated pattern: `this` becomes `self`.
NewPat(pat) ==
  IF pat.k = "ident" /\ pat.ident = "this"
    THEN [pat EXCEPT !.ident = "self"]
    ELSE pat

ConversionRequired_AlwaysUnconverted(chk, ty) ==
  Unconverted(ty)

\* conversion_required
ConversionRequired(chk, ty) ==
  IF ty.k = "path"
    THEN IF IsPod(chk, TypeNameFromTypePath(ty))
           THEN Unconverted(ty)
           ELSE FromUniquePtr(ty)
    ELSE Unconverted(ty)

\* convert_fn_arg: (FnArg, ArgumentAnalysis)
ConvertFnArg(chk, arg) ==
  LET found_this == arg.pat.k = "ident" /\ arg.pat.ident = "this"
      new_ty == ConvertType(arg.ty)
  IN  [arg |-> [arg EXCEPT !.pat = NewPat(arg.pat), !.ty = new_ty],
       was_self |-> found_this,
       conversion |-> ConversionRequired(chk, new_ty)]

\* unwrap_return_type: Option<ArgumentConversion>
UnwrapReturnType(chk, rt) ==
  IF rt.k = "default"
    THEN [some |-> FALSE, conv |-> Unconverted(rt)]
    ELSE [some |-> TRUE,
          conv |-> IF ~IsPod(chk, TypeNameFromType(rt))
                     THEN ToUniquePtr(rt)
                     ELSE Unconverted(rt)]

\* strip_attr
StripAttr(attrs, to_strip) ==
  SelectSeq(attrs, LAMBDA a : a.path # to_strip)

IsConstructorName_Never(tf, old_name) ==
  FALSE

\* convert_foreign_fn, lines 350-355: is old_name "{ty}_{ty}" for a type
\* found so far?
IsConstructorName(tf, old_name) ==
  \E t \in 1..Len(tf) : old_name = FormatJoin(tf[t], tf[t])

DemangledIdent_LastMatch(tf, old_name) ==
  LET hits == { t \in 1..Len(tf) : Prefixes(tf[t], old_name).some }
  IN  IF hits = {} THEN old_name
      ELSE Prefixes(tf[CHOOSE t \in hits : \A u \in hits : t >= u], old_name).suffix

\* convert_foreign_fn, lines 374-379: the suffix after the first type found
\* that prefixes old_name; old_name itself when there is none.
DemangledIdent(tf, old_name) ==
  LET hits == { t \in 1..Len(tf) : Prefixes(tf[t], old_name).some }
  IN  IF hits = {} THEN old_name
      ELSE Prefixes(tf[CHOOSE t \in hits : \A u \in hits : t <= u], old_name).suffix

\* AdditionalNeed::ByValueWrapper(ident, ret conversion, param conversions)
ByValueWrapper(ident, ret, params) ==
  [need |-> "ByValueWrapper", ident |-> ident, ret |-> ret, params |-> params,
   ty |-> <<>>, arg_types |-> <<>>]

\* AdditionalNeed::MakeUnique(type, argument types)
MakeUnique(ty, arg_types) ==
  [need |-> "MakeUnique", ident |-> <<>>,
   ret |-> [some |-> FALSE, conv |-> Unconverted(ReturnDefault)],
   params |-> <<>>, ty |-> ty, arg_types |-> arg_types]

ConvertForeignFn_RenameByNewName(st, fun, tf, chk, rn) ==
  LET old_name == fun.ident
      output == ConvertReturnType(fun.output)
      details == [i \in 1..Len(fun.inputs) |-> ConvertFnArg(chk, fun.inputs[i])]
      new_params == [i \in 1..Len(fun.inputs) |-> details[i].arg]
      is_a_method == \E i \in 1..Len(details) : details[i].was_self
      ident == IF is_a_method THEN DemangledIdent(tf, old_name) ELSE old_name
      unique_ptr_wrapper_needed ==
        \E i \in 1..Len(details) : WorkNeeded(details[i].conversion)
      ret_type_conversion == UnwrapReturnType(chk, output)
      ret_type_conversion_needed ==
        ret_type_conversion.some /\ WorkNeeded(ret_type_conversion.conv)
      stripped == StripAttr(fun.attrs, "link_name")
      attrs == IF ident \in DOMAIN rn
                 THEN Append(stripped, [path |-> "rust_name", val |-> rn[ident]])
                 ELSE stripped
      new_item == [kind |-> "fn", attrs |-> attrs, vis |-> fun.vis,
                   ident |-> ident, inputs |-> new_params, output |-> output]
  IN  IF IsConstructorName(tf, old_name) THEN st
      ELSE [ok |-> TRUE,
            fns |-> Append(st.fns, new_item),
            needs |-> IF unique_ptr_wrapper_needed \/ ret_type_conversion_needed
                        THEN Append(st.needs,
                               ByValueWrapper(ident, ret_type_conversion,
                                 [i \in 1..Len(details) |-> details[i].conversion]))
                        ELSE st.needs]

\* convert_foreign_fn.  st = [ok, fns, needs]: fns is extern_c_mod.items,
\* needs is additional_cpp_needs.
ConvertForeignFn(st, fun, tf, chk, rn) ==
  LET old_name == fun.ident
      output == ConvertReturnType(fun.output)
      details == [i \in 1..Len(fun.inputs) |-> ConvertFnArg(chk, fun.inputs[i])]
      new_params == [i \in 1..Len(fun.inputs) |-> details[i].arg]
      is_a_method == \E i \in 1..Len(details) : details[i].was_self
      ident == IF is_a_method THEN DemangledIdent(tf, old_name) ELSE old_name
      unique_ptr_wrapper_needed ==
        \E i \in 1..Len(details) : WorkNeeded(details[i].conversion)
      ret_type_conversion == UnwrapReturnType(chk, output)
      ret_type_conversion_needed ==
        ret_type_conversion.some /\ WorkNeeded(ret_type_conversion.conv)
      stripped == StripAttr(fun.attrs, "link_name")
      attrs == IF old_name \in DOMAIN rn
                 THEN Append(stripped, [path |-> "rust_name", val |-> rn[old_name]])
                 ELSE stripped
      new_item == [kind |-> "fn", attrs |-> attrs, vis |-> fun.vis,
                   ident |-> ident, inputs |-> new_params, output |-> output]
  IN  IF IsConstructorName(tf, old_name) THEN st
      ELSE [ok |-> TRUE,
            fns |-> Append(st.fns, new_item),
            needs |-> IF unique_ptr_wrapper_needed \/ ret_type_conversion_needed
                        THEN Append(st.needs,
                               ByValueWrapper(ident, ret_type_conversion,
                                 [i \in 1..Len(details) |-> details[i].conversion]))
                        ELSE st.needs]

RECURSIVE ConvertForeignModItems_SkipUnknown(_, _, _, _, _)

ConvertForeignModItems_SkipUnknown(st, foreign_mod_items, tf, chk, rn) ==
  IF foreign_mod_items = <<>> THEN st
  ELSE ConvertForeignModItems_SkipUnknown(
         IF Head(foreign_mod_items).kind = "fn"
           THEN ConvertForeignFn(st, Head(foreign_mod_items), tf, chk, rn)
           ELSE st,
         Tail(foreign_mod_items), tf, chk, rn)

RECURSIVE ConvertForeignModItems(_, _, _, _, _)

\* convert_foreign_mod_items: stops with UnknownForeignItem at the first
\* item that is not a function.
ConvertForeignModItems(st, foreign_mod_items, tf, chk, rn) ==
  IF foreign_mod_items = <<>> THEN st
  ELSE IF Head(foreign_mod_items).kind = "fn"
    THEN ConvertForeignModItems(
           ConvertForeignFn(st, Head(foreign_mod_items), tf, chk, rn),
           Tail(foreign_mod_items), tf, chk, rn)
    ELSE [st EXCEPT !.ok = FALSE]

-----------------------------------------------------------------------------
(* Items of a module *)

\* syn::Fields::Named over the field types tys.
FieldsNamed(tys) ==
  [style |-> "named", tys |-> tys]

\* syn::Fields::Unit
FieldsUnit ==
  [style |-> "unit", tys |-> <<>>]

\* Item::Struct
ItemStruct(n, tys) ==
  [kind |-> "struct", name |-> n, fields |-> FieldsNamed(tys)]

\* Item::Enum
ItemEnum(n, variants) ==
  [kind |-> "enum", name |-> n, variants |-> variants]

\* FnArg::Typed with an identifier pattern
Arg(p, ty) ==
  [kind |-> "typed", pat |-> [k |-> "ident", ident |-> p], ty |-> ty]

\* FnArg::Typed with a pattern that is no identifier
ArgWild(ty) ==
  [kind |-> "typed", pat |-> [k |-> "wild", ident |-> "_"], ty |-> ty]

\* FnArg::Receiver
ArgReceiver ==
  [kind |-> "receiver", pat |-> [k |-> "wild", ident |-> "self"], ty |-> ReturnDefault]

\* syn::ImplItem::Method; block is the callee and the forwarded arguments
\* (no callee: the body bindgen wrote).
Method(n, unsafety, inputs, output) ==
  [kind |-> "method", ident |-> n, unsafety |-> unsafety, inputs |-> inputs,
   output |-> output, block |-> [call |-> <<>>, args |-> <<>>]]

\* Item::Impl
ItemImpl(attrs, unsafety, trait, self_ty, items) ==
  [kind |-> "impl", attrs |-> attrs, unsafety |-> unsafety, trait |-> trait,
   self_ty |-> self_ty, items |-> items]

\* Any other Item (use, const, type, ...)
ItemOther(id) ==
  [kind |-> "other", id |-> id]

\* ForeignItem::Fn
ForeignFn(n, attrs, inputs, output) ==
  [kind |-> "fn", attrs |-> attrs, vis |-> "pub", ident |-> n,
   inputs |-> inputs, output |-> output]

\* ForeignItem::Static, one of the foreign items that are no function
ForeignStatic(n) ==
  [kind |-> "static", attrs |-> <<>>, vis |-> "pub", ident |-> n,
   inputs |-> <<>>, output |-> ReturnDefault]

\* Item::ForeignMod
ItemForeignMod(id, items) ==
  [kind |-> "foreignmod", id |-> id, items |-> items]

\* Item::Mod
ItemMod(attrs, vis, ident, content) ==
  [kind |-> "mod", attrs |-> attrs, vis |-> vis, ident |-> ident,
   content |-> content]

\* generate_type_alias: `type T = super::bindgen::T;` (ForeignItem::Verbatim)
TypeAlias(tyident) ==
  [kind |-> "verbatim", attrs |-> <<>>, vis |-> "", ident |-> tyident,
   inputs |-> <<>>, output |-> TPath(tyident, <<>>)]

\* generate_type_alias: `impl UniquePtr<T> {}`
UniquePtrImpl(tyident) ==
  ItemImpl(<<>>, FALSE, "", TPath(IdUniquePtr, <<TPath(tyident, <<>>)>>), <<>>)

\* generate_type_alias: `unsafe impl cxx::ExternType for bindgen::T`
\* with `type Id` and `type Kind`.
ExternTypeImpl(tyident, tynamestring, kind_item) ==
  ItemImpl(<<>>, TRUE, "cxx::ExternType", TPath(tyident, <<>>),
           << [kind |-> "type", ident |-> "Id", id |-> tynamestring, tag |-> ""],
              [kind |-> "type", ident |-> "Kind", id |-> <<>>, tag |-> kind_item] >>)

\* build_include_foreign_items: include!(inc) for the include list, then
\* for the extra inclusion.
IncludeItem(inc) ==
  [kind |-> "macro", attrs |-> <<>>, vis |-> "", ident |-> <<>>,
   inputs |-> <<>>, output |-> ReturnDefault, inc |-> inc]

BuildIncludeForeignItems(incs, extra) ==
  LET chained == IF extra.some THEN Append(incs, extra.val) ELSE incs
  IN  [i \in 1..Len(chained) |-> IncludeItem(chained[i])]

\* get_blank_extern_c_mod: extern "C" {}
BlankExternCMod ==
  [some |-> TRUE, id |-> "blank", items |-> <<>>]

NoExternCMod ==
  [some |-> FALSE, id |-> "", items |-> <<>>]

\* type_to_typename
TypeToTypename(ty) ==
  IF ty.k = "path"
    THEN [some |-> TRUE, name |-> TypeNameFromTypePath(ty)]
    ELSE [some |-> FALSE, name |-> <<>>]

-----------------------------------------------------------------------------
(* Constructor rewrite *)

IdSelf ==
  <<"S", "e", "l", "f">>

\* convert_new_method, lines 279-288: the parameters that are collected:
\* typed, of a path type, bound to an identifier.
IsConstructorArg(x) ==
  /\ x.kind = "typed"
  /\ TypeToTypename(x.ty).some
  /\ x.pat.k = "ident"

\* convert_new_method.  st = [needs, bitems]: additional_cpp_needs and
\* bindgen_items.
ConvertNewMethod(st, m, ty, i) ==
  IF m.output.k = "default" THEN st
  ELSE
    LET constructor_args == SelectSeq(m.inputs, IsConstructorArg)
        arg_types == [j \in 1..Len(constructor_args) |->
                        TypeToTypename(constructor_args[j].ty).name]
        arg_names == [j \in 1..Len(constructor_args) |->
                        constructor_args[j].pat.ident]
        call_name == FormatJoin(ty, IdMakeUnique)
        new_impl_method ==
          [m EXCEPT !.block = [call |-> call_name, args |-> arg_names],
                    !.ident = IdMakeUnique,
                    !.unsafety = FALSE,
                    !.output = TPath(IdUniquePtr, <<m.output>>)]
        new_item_impl ==
          [i EXCEPT !.attrs = <<>>, !.unsafety = FALSE,
                    !.items = <<new_impl_method>>]
    IN  [needs |-> Append(st.needs, MakeUnique(ty, arg_types)),
         bitems |-> Append(st.bitems, new_item_impl)]

RECURSIVE ConvertImplItems(_, _, _, _)

\* convert_items, lines 225-232: every method named "new" of the block is
\* rewritten, every other item of the block is passed over.
ConvertImplItems(st, items, ty, i) ==
  IF items = <<>> THEN st
  ELSE ConvertImplItems(
         IF Head(items).kind = "method" /\ Head(items).ident = IdNew
           THEN ConvertNewMethod(st, Head(items), ty, i)
           ELSE st,
         Tail(items), ty, i)

RECURSIVE IngestItems(_, _)

\* find_nested_pod_types, lines 122-130
IngestItems(chk, items) ==
  IF items = <<>> THEN chk
  ELSE IngestItems(
         CASE Head(items).kind = "struct" -> IngestStruct(chk, Head(items))
           [] Head(items).kind = "enum" -> IngestPodType(chk, Head(items).name)
           [] OTHER -> chk,
         Tail(items))

\* Result<BridgeConversionResults, ConvertError>
Ok(items, needs) ==
  [status |-> "ok", err |-> "", name |-> <<>>, items |-> items,
   additional_cpp_needs |-> needs]

Err(e, n) ==
  [status |-> "err", err |-> e, name |-> n, items |-> <<>>,
   additional_cpp_needs |-> <<>>]

Pending ==
  [status |-> "pending", err |-> "", name |-> <<>>, items |-> <<>>,
   additional_cpp_needs |-> <<>>]

-----------------------------------------------------------------------------
(* The inputs convert is run on *)

TyA ==
  TPath(IdA, <<>>)

TyAB ==
  TPath(IdAB, <<>>)

TyInt ==
  TPath(IdInt, <<>>)

AttrLinkName ==
  [path |-> "link_name", val |-> <<"l">>]

AttrDoc ==
  [path |-> "doc", val |-> <<"d">>]

\* A_A(this: *mut A, o: AB), a constructor bindgen declares for A
FnCtorA ==
  ForeignFn(FormatJoin(IdA, IdA), <<AttrLinkName>>,
            <<Arg("this", TPtr(TRUE, TyA)), Arg("o", TyAB)>>, ReturnDefault)

\* A_m(this: *mut A, x: i) -> i
FnMethodA ==
  ForeignFn(FormatJoin(IdA, <<"m">>), <<AttrLinkName, AttrDoc>>,
            <<Arg("this", TPtr(TRUE, TyA)), Arg("x", TyInt)>>, TyInt)

\* AB_m(this: *const AB, g: G<*mut A>) -> *const A
FnMethodAB ==
  ForeignFn(FormatJoin(IdAB, <<"m">>), <<AttrDoc>>,
            <<Arg("this", TPtr(FALSE, TyAB)),
              Arg("g", TPath(IdGen, <<TPtr(TRUE, TyA)>>))>>,
            TPtr(FALSE, TyA))

\* f(x: A, p: *const *mut AB) -> AB
FnByValue ==
  ForeignFn(<<"f">>, <<AttrLinkName>>,
            <<Arg("x", TyA), Arg("p", TPtr(FALSE, TPtr(TRUE, TyAB)))>>, TyAB)

\* A_g(x: i, r: &*mut A): a type's name prefixes it, it has no `this`
FnNoThis ==
  ForeignFn(FormatJoin(IdA, <<"g">>), <<>>,
            <<Arg("x", TyInt), Arg("r", TRef(FALSE, TPtr(TRUE, TyA)))>>,
            ReturnDefault)

\* cb(c: Option<fn(*mut A)>) -> [*const i; 2]: pointers inside a bare
\* function type and inside an array
FnCallback ==
  ForeignFn(<<"c", "b">>, <<>>,
            <<Arg("c", TPath(IdGen, <<TOther(TPtr(TRUE, TyA))>>))>>,
            TOther(TPtr(FALSE, TyInt)))

ForeignModPool ==
  { ItemForeignMod("fm1", <<FnCtorA, FnMethodA>>),
    ItemForeignMod("fm2", <<FnByValue, FnNoThis>>),
    ItemForeignMod("fm3", <<FnMethodAB>>),
    ItemForeignMod("fm4", <<FnMethodA, ForeignStatic(<<"v">>), FnNoThis>>),
    ItemForeignMod("fm5", <<FnCallback>>) }

TypeItemPool ==
  { ItemStruct(IdA, <<TyInt>>),
    ItemStruct(IdA, <<TyInt, TPath(IdStdString, <<>>)>>),
    ItemStruct(IdAB, <<TyA, TyInt>>),
    ItemStruct(IdD, <<TPath(IdStdString, <<>>)>>),
    ItemEnum(IdE, <<"v1", "v2">>) }

ImplPool ==
  { \* impl A { unsafe fn new(x: i, y: AB) -> Self; fn get(&self) -> i }
    ItemImpl(<<AttrDoc>>, TRUE, "", TyA,
             << Method(IdNew, TRUE, <<Arg("x", TyInt), Arg("y", TyAB)>>,
                       TPath(IdSelf, <<>>)),
                Method(<<"g", "e", "t">>, FALSE, <<ArgReceiver>>, TyInt) >>),
    \* impl AB { unsafe fn new(a: i, b: *const AB, _: i) -> Self }
    ItemImpl(<<>>, FALSE, "", TyAB,
             << Method(IdNew, TRUE,
                       <<Arg("a", TyInt), Arg("b", TPtr(FALSE, TyAB)),
                         ArgWild(TyInt)>>,
                       TPath(IdSelf, <<>>)) >>),
    \* impl A { fn get(&self) -> i }
    ItemImpl(<<>>, FALSE, "", TyA,
             << Method(<<"g", "e", "t">>, FALSE, <<ArgReceiver>>, TyInt) >>),
    \* impl E { fn new(x: i); }  (no return type)
    ItemImpl(<<>>, FALSE, "", TPath(IdE, <<>>),
             << Method(IdNew, FALSE, <<Arg("x", TyInt)>>, ReturnDefault) >>) }

OtherPool ==
  { ItemOther("use") }

ItemPool ==
  ForeignModPool \cup TypeItemPool \cup ImplPool \cup OtherPool

IsTypeItem(it) ==
  it.kind \in {"struct", "enum"}

\* A module body: at most MaxItems items, no type declared twice.
ModuleBodies ==
  { b \in UNION { [1..n -> ItemPool] : n \in 0..MaxItems } :
      \A i, j \in 1..Len(b) :
        (i # j /\ IsTypeItem(b[i]) /\ IsTypeItem(b[j])) => b[i].name # b[j].name }

NoRenames ==
  << >>

\* What the caller passes beside the module body: the module's header,
\* the must-be-trivial requests, the rename map, the include list and the
\* extra inclusion.
CallPool ==
  { [vis |-> "", ident |-> "root", pods |-> <<>>, renames |-> NoRenames,
     incs |-> <<>>, extra |-> [some |-> FALSE, val |-> ""]],
    [vis |-> "pub", ident |-> "bindgen", pods |-> <<IdA>>,
     renames |-> (FormatJoin(IdA, <<"m">>) :> <<"r">>),
     incs |-> <<"a.h">>, extra |-> [some |-> TRUE, val |-> "x.h"]],
    [vis |-> "pub", ident |-> "bindgen", pods |-> <<IdAB, IdA>>,
     renames |-> (<<"m">> :> <<"r">>),
     incs |-> <<"a.h", "b.h">>, extra |-> [some |-> FALSE, val |-> ""]] }

-----------------------------------------------------------------------------
(* State machine *)

Init ==
  /\ \E c \in CallPool :
       /\ \/ \E b \in ModuleBodies :
               bindings = [attrs |-> <<>>, vis |-> c.vis, ident |-> c.ident,
                           content |-> [some |-> TRUE, items |-> b]]
          \/ bindings = [attrs |-> <<>>, vis |-> c.vis, ident |-> c.ident,
                         content |-> [some |-> FALSE, items |-> <<>>]]
       /\ pod_requests = c.pods
       /\ renames = c.renames
       /\ include_list = c.incs
       /\ extra_inclusion = c.extra
  /\ pc = "convert"
  /\ idx = 0
  /\ bindgen_mod = ItemMod(<<>>, "", "", <<>>)
  /\ all_items = <<>>
  /\ bridge_items = <<>>
  /\ extern_c_mod = NoExternCMod
  /\ extern_c_mod_items = <<>>
  /\ additional_cpp_needs = <<>>
  /\ types_found = <<>>
  /\ bindgen_items = <<>>
  /\ byvalue_checker = NewChecker
  /\ result = Pending

\* convert, line 75: a module without a body.
ConvertNoContent ==
  /\ pc = "convert"
  /\ ~bindings.content.some
  /\ result' = Err("NoContent", <<>>)
  /\ pc' = "done"
  /\ UNCHANGED << inputVars, idx, bindgen_mod, all_items, bridge_items,
                  extern_c_mod, extern_c_mod_items, additional_cpp_needs,
                  types_found, bindgen_items, byvalue_checker >>

\* convert, lines 76-99: the BridgeConversion is built and convert_items
\* is entered.
ConvertContent ==
  /\ pc = "convert"
  /\ bindings.content.some
  /\ bindgen_mod' = ItemMod(bindings.attrs, bindings.vis, bindings.ident, <<>>)
  /\ all_items' = <<>>
  /\ bridge_items' = <<>>
  /\ extern_c_mod' = NoExternCMod
  /\ extern_c_mod_items' = <<>>
  /\ additional_cpp_needs' = <<>>
  /\ types_found' = <<>>
  /\ bindgen_items' = <<>>
  /\ byvalue_checker' = NewChecker
  /\ pc' = "find_nested_pod_types"
  /\ UNCHANGED << inputVars, idx, result >>

\* convert_items, line 193: find_nested_pod_types fails and `?` returns.
FindNestedPodTypesErr ==
  /\ pc = "find_nested_pod_types"
  /\ LET chk == IngestItems(byvalue_checker, bindings.content.items)
         r == SatisfyRequests(chk, pod_requests)
     IN  /\ ~r.ok
         /\ byvalue_checker' = chk
         /\ result' = Err("UnsafePODType", r.name)
  /\ pc' = "done"
  /\ UNCHANGED << inputVars, idx, bindgen_mod, all_items, bridge_items,
                  extern_c_mod, extern_c_mod_items, additional_cpp_needs,
                  types_found, bindgen_items >>

FindNestedPodTypesOk_Unchecked ==
  /\ pc = "find_nested_pod_types"
  /\ byvalue_checker' = IngestItems(byvalue_checker, bindings.content.items)
  /\ extern_c_mod_items' = BuildIncludeForeignItems(include_list, extra_inclusion)
  /\ pc' = "items"
  /\ idx' = 1
  /\ UNCHANGED << inputVars, bindgen_mod, all_items, bridge_items,
                  extern_c_mod, additional_cpp_needs, types_found,
                  bindgen_items, result >>

\* convert_items, lines 193-194: find_nested_pod_types succeeds, the
\* include items are built.
FindNestedPodTypesOk ==
  /\ pc = "find_nested_pod_types"
  /\ LET chk == IngestItems(byvalue_checker, bindings.content.items)
         r == SatisfyRequests(chk, pod_requests)
     IN  /\ r.ok
         /\ byvalue_checker' = chk
  /\ extern_c_mod_items' = BuildIncludeForeignItems(include_list, extra_inclusion)
  /\ pc' = "items"
  /\ idx' = 1
  /\ UNCHANGED << inputVars, bindgen_mod, all_items, bridge_items,
                  extern_c_mod, additional_cpp_needs, types_found,
                  bindgen_items, result >>

\* The item the loop of convert_items (line 195) is at.
AtItem(kind) ==
  /\ pc = "items"
  /\ idx <= Len(bindings.content.items)
  /\ bindings.content.items[idx].kind = kind

CurrentItem ==
  bindings.content.items[idx]

ChosenExternCMod_Latest(cur, fm) ==
  [some |-> TRUE, id |-> fm.id, items |-> cur.items]

\* convert_items, lines 197-206: the first foreign block met is kept
\* (emptied) as extern_c_mod.
ChosenExternCMod(cur, fm) ==
  IF cur.some THEN cur ELSE [some |-> TRUE, id |-> fm.id, items |-> <<>>]

\* The rewrite of one foreign block's items.
ForeignModOutcome ==
  LET chosen == ChosenExternCMod(extern_c_mod, CurrentItem)
  IN  ConvertForeignModItems(
        [ok |-> TRUE, fns |-> chosen.items, needs |-> additional_cpp_needs],
        CurrentItem.items, types_found, byvalue_checker, renames)

\* convert_items, lines 197-208: Item::ForeignMod, every item rewritten.
ConvertItemForeignMod ==
  /\ AtItem("foreignmod")
  /\ ForeignModOutcome.ok
  /\ extern_c_mod' =
       [ChosenExternCMod(extern_c_mod, CurrentItem) EXCEPT
          !.items = ForeignModOutcome.fns]
  /\ additional_cpp_needs' = ForeignModOutcome.needs
  /\ idx' = idx + 1
  /\ UNCHANGED << inputVars, pc, bindgen_mod, all_items, bridge_items,
                  extern_c_mod_items, types_found, bindgen_items,
                  byvalue_checker, result >>

\* convert_items, line 207: convert_foreign_mod_items fails and `?`
\* returns UnknownForeignItem.
ConvertItemForeignModErr ==
  /\ AtItem("foreignmod")
  /\ ~ForeignModOutcome.ok
  /\ extern_c_mod' =
       [ChosenExternCMod(extern_c_mod, CurrentItem) EXCEPT
          !.items = ForeignModOutcome.fns]
  /\ additional_cpp_needs' = ForeignModOutcome.needs
  /\ result' = Err("UnknownForeignItem", <<>>)
  /\ pc' = "done"
  /\ UNCHANGED << inputVars, idx, bindgen_mod, all_items, bridge_items,
                  extern_c_mod_items, types_found, bindgen_items,
                  byvalue_checker >>

\* generate_type_alias had it put the new name at the front of the ledger.
GenerateTypeAlias_Prepend(st, tyname, should_be_pod) ==
  LET tyident == ToIdent(tyname)
      kind_item == IF should_be_pod THEN "Trivial" ELSE "Opaque"
      tynamestring == ToCppName(tyname)
  IN  [ecmi |-> Append(st.ecmi, TypeAlias(tyident)),
       bridge |-> Append(st.bridge, UniquePtrImpl(tyident)),
       all |-> Append(st.all, ExternTypeImpl(tyident, tynamestring, kind_item)),
       tf |-> <<tyname>> \o st.tf]

GenerateTypeAlias_TagInverted(st, tyname, should_be_pod) ==
  LET tyident == ToIdent(tyname)
      kind_item == IF should_be_pod THEN "Opaque" ELSE "Trivial"
      tynamestring == ToCppName(tyname)
  IN  [ecmi |-> Append(st.ecmi, TypeAlias(tyident)),
       bridge |-> Append(st.bridge, UniquePtrImpl(tyident)),
       all |-> Append(st.all, ExternTypeImpl(tyident, tynamestring, kind_item)),
       tf |-> Append(st.tf, tyname)]

\* generate_type_alias.  st = [ecmi, bridge, all, tf]: extern_c_mod_items,
\* bridge_items, all_items, types_found.
GenerateTypeAlias(st, tyname, should_be_pod) ==
  LET tyident == ToIdent(tyname)
      kind_item == IF should_be_pod THEN "Trivial" ELSE "Opaque"
      tynamestring == ToCppName(tyname)
  IN  [ecmi |-> Append(st.ecmi, TypeAlias(tyident)),
       bridge |-> Append(st.bridge, UniquePtrImpl(tyident)),
       all |-> Append(st.all, ExternTypeImpl(tyident, tynamestring, kind_item)),
       tf |-> Append(st.tf, tyname)]

AliasState ==
  [ecmi |-> extern_c_mod_items, bridge |-> bridge_items, all |-> all_items,
   tf |-> types_found]

StructFields_NeverErased(s, should_be_pod) ==
  s.fields

\* convert_items, lines 213-215: the fields an emitted struct keeps.
StructFields(s, should_be_pod) ==
  IF ~should_be_pod THEN FieldsUnit ELSE s.fields

\* convert_items, lines 209-217: Item::Struct
ConvertItemStruct ==
  /\ AtItem("struct")
  /\ LET s == CurrentItem
         tyname == s.name
         should_be_pod == IsPod(byvalue_checker, tyname)
         g == GenerateTypeAlias(AliasState, tyname, should_be_pod)
     IN  /\ extern_c_mod_items' = g.ecmi
         /\ bridge_items' = g.bridge
         /\ all_items' = g.all
         /\ types_found' = g.tf
         /\ bindgen_items' =
              Append(bindgen_items,
                     [s EXCEPT !.fields = StructFields(s, should_be_pod)])
  /\ idx' = idx + 1
  /\ UNCHANGED << inputVars, pc, bindgen_mod, extern_c_mod,
                  additional_cpp_needs, byvalue_checker, result >>

\* convert_items, lines 218-222: Item::Enum
ConvertItemEnum ==
  /\ AtItem("enum")
  /\ LET e == CurrentItem
         g == GenerateTypeAlias(AliasState, e.name, TRUE)
     IN  /\ extern_c_mod_items' = g.ecmi
         /\ bridge_items' = g.bridge
         /\ all_items' = g.all
         /\ types_found' = g.tf
         /\ bindgen_items' = Append(bindgen_items, e)
  /\ idx' = idx + 1
  /\ UNCHANGED << inputVars, pc, bindgen_mod, extern_c_mod,
                  additional_cpp_needs, byvalue_checker, result >>

\* convert_items, lines 223-234: Item::Impl
ConvertItemImpl ==
  /\ AtItem("impl")
  /\ LET i == CurrentItem
         ty == TypeToTypename(i.self_ty)
         st == [needs |-> additional_cpp_needs, bitems |-> bindgen_items]
         out == IF ty.some THEN ConvertImplItems(st, i.items, ty.name, i) ELSE st
     IN  /\ additional_cpp_needs' = out.needs
         /\ bindgen_items' = out.bitems
  /\ idx' = idx + 1
  /\ UNCHANGED << inputVars, pc, bindgen_mod, all_items, bridge_items,
                  extern_c_mod, extern_c_mod_items, types_found,
                  byvalue_checker, result >>

ConvertItemOther_Lost ==
  /\ AtItem("other")
  /\ idx' = idx + 1
  /\ UNCHANGED << inputVars, pc, bindgen_mod, all_items, bridge_items,
                  extern_c_mod, extern_c_mod_items, additional_cpp_needs,
                  types_found, bindgen_items, byvalue_checker, result >>

\* convert_items, lines 235-237: any other item
ConvertItemOther ==
  /\ AtItem("other")
  /\ all_items' = Append(all_items, CurrentItem)
  /\ idx' = idx + 1
  /\ UNCHANGED << inputVars, pc, bindgen_mod, bridge_items, extern_c_mod,
                  extern_c_mod_items, additional_cpp_needs, types_found,
                  bindgen_items, byvalue_checker, result >>

\* #[cxx::bridge] pub mod cxxbridge { }
BridgeMod(content) ==
  ItemMod(<<"cxx::bridge">>, "pub", "cxxbridge", content)

\* convert_items, lines 240-271: the two modules are assembled and the
\* results are returned.
Assemble ==
  /\ pc = "items"
  /\ idx > Len(bindings.content.items)
  /\ LET taken == IF extern_c_mod.some THEN extern_c_mod ELSE BlankExternCMod
         full == ItemForeignMod(taken.id, taken.items \o extern_c_mod_items)
         bridge == Append(bridge_items, full)
         bmod == [bindgen_mod EXCEPT !.content = @ \o bindgen_items]
         items == all_items \o <<bmod, BridgeMod(bridge)>>
     IN  /\ bindgen_mod' = bmod
         /\ all_items' = items
         /\ result' = Ok(items, additional_cpp_needs)
  /\ extern_c_mod' = NoExternCMod
  /\ extern_c_mod_items' = <<>>
  /\ bridge_items' = <<>>
  /\ bindgen_items' = <<>>
  /\ pc' = "done"
  /\ UNCHANGED << inputVars, idx, additional_cpp_needs, types_found,
                  byvalue_checker >>

Next ==
  \/ ConvertNoContent
  \/ ConvertContent
  \/ FindNestedPodTypesErr
  \/ FindNestedPodTypesOk
  \/ ConvertItemForeignMod
  \/ ConvertItemForeignModErr
  \/ ConvertItemStruct
  \/ ConvertItemEnum
  \/ ConvertItemImpl
  \/ ConvertItemOther
  \/ Assemble

Spec ==
  Init /\ [][Next]_vars

-----------------------------------------------------------------------------
(* Reading the input and the returned results *)

Items ==
  bindings.content.items

Succeeded ==
  result.status = "ok"

Failed ==
  result.status = "err"

\* The last two items returned.
Reclassified ==
  result.items[Len(result.items) - 1]

StrictBridge ==
  result.items[Len(result.items)]

\* The items returned beside the two modules.
TopLevelOut ==
  SubSeq(result.items, 1, Len(result.items) - 2)

OfKind(seq, kind) ==
  SelectSeq(seq, LAMBDA it : it.kind = kind)

\* The declarations of all foreign-linkage blocks of the strict bridge.
RECURSIVE Flatten(_)

Flatten(blocks) ==
  IF blocks = <<>> THEN <<>> ELSE Head(blocks).items \o Flatten(Tail(blocks))

OutForeignItems ==
  Flatten(OfKind(StrictBridge.content, "foreignmod"))

OutFns ==
  OfKind(OutForeignItems, "fn")

OutNeeds(need) ==
  SelectSeq(result.additional_cpp_needs, LAMBDA a : a.need = need)

\* A type of this name is declared before position b of the input.
DeclaredBefore(n, b) ==
  \E j \in 1..(b - 1) : IsTypeItem(Items[j]) /\ Items[j].name = n

DeclaredNames ==
  { Items[j].name : j \in { i \in 1..Len(Items) : IsTypeItem(Items[i]) } }

\* The foreign items of the input, each with the position of its block.
RECURSIVE ForeignItemsFrom(_)

ForeignItemsFrom(b) ==
  IF b > Len(Items) THEN <<>>
  ELSE (IF Items[b].kind = "foreignmod"
          THEN [k \in 1..Len(Items[b].items) |-> [b |-> b, f |-> Items[b].items[k]]]
          ELSE <<>>) \o ForeignItemsFrom(b + 1)

InFns ==
  ForeignItemsFrom(1)

\* A foreign function named T_T in a block that stands after T's declaration.
IsDeclaredConstructor(e) ==
  \E n \in DeclaredNames :
    e.f.ident = FormatJoin(n, n) /\ DeclaredBefore(n, e.b)

KeptFns ==
  SelectSeq(InFns, LAMBDA e : ~IsDeclaredConstructor(e))

\* The methods named `new` of the input that have a return type, in blocks
\* whose type is a path, each with its block.
RECURSIVE NewMethodsOf(_, _)

NewMethodsOf(i, ms) ==
  IF ms = <<>> THEN <<>>
  ELSE (IF Head(ms).kind = "method" /\ Head(ms).ident = IdNew
           /\ Head(ms).output.k # "default"
          THEN << [i |-> i, m |-> Head(ms)] >> ELSE <<>>)
       \o NewMethodsOf(i, Tail(ms))

RECURSIVE NewMethodsFrom(_)

NewMethodsFrom(b) ==
  IF b > Len(Items) THEN <<>>
  ELSE (IF Items[b].kind = "impl" /\ Items[b].self_ty.k = "path"
          THEN NewMethodsOf(Items[b], Items[b].items) ELSE <<>>)
       \o NewMethodsFrom(b + 1)

InNewMethods ==
  NewMethodsFrom(1)

KindName(seq) ==
  [i \in 1..Len(seq) |-> <<seq[i].kind, seq[i].name>>]

InTypeItems ==
  SelectSeq(Items, IsTypeItem)

-----------------------------------------------------------------------------
(* C1 *)

-----------------------------------------------------------------------------
(* C2 *)

UnsafeRequests ==
  { pod_requests[i] : i \in
      { j \in 1..Len(pod_requests) : ~IsPod(byvalue_checker, pod_requests[j]) } }

PassOneDone ==
  pc \in {"items", "done"} /\ bindings.content.some

\* C2: once the classifier has run, if a requested type is not trivial
\* then convert has returned the unsafe-trivial-request error naming such
\* a type, with no module and no extra-work item, and nothing of pass 2
\* has happened: no alias, no ledger entry, no foreign function, no item.
C2_FailClosedBeforeRewrite ==
  (PassOneDone /\ UnsafeRequests # {}) =>
    /\ pc = "done"
    /\ result.status = "err"
    /\ result.err = "UnsafePODType"
    /\ result.name \in UnsafeRequests
    /\ result.items = <<>>
    /\ result.additional_cpp_needs = <<>>
    /\ idx = 0
    /\ types_found = <<>>
    /\ extern_c_mod_items = <<>>
    /\ extern_c_mod = NoExternCMod
    /\ bindgen_items = <<>>
    /\ bridge_items = <<>>
    /\ all_items = <<>>
    /\ additional_cpp_needs = <<>>

\* The request for A fails on a module that declares A with an opaque
\* field and has more items to rewrite.
C2_Witness ==
  /\ pc = "done"
  /\ result.err = "UnsafePODType"
  /\ result.name = IdA
  /\ Len(Items) >= 2
  /\ \E j \in 1..Len(Items) :
       /\ Items[j].kind = "struct"
       /\ Items[j].name = IdA
       /\ Len(Items[j].fields.tys) = 2

-----------------------------------------------------------------------------
(* C3 *)

OutWrappersNamed(n) ==
  SelectSeq(OutNeeds("ByValueWrapper"), LAMBDA a : a.ident = n)

\* C3 as stated: whatever the order of the items, no declaration named
\* T_T stays in the foreign block, and no wrapper item is queued for one,
\* when T is declared anywhere in the module.
C3_ElidedInEveryOrder ==
  Succeeded =>
    \A n \in DeclaredNames :
      /\ \A k \in 1..Len(OutFns) : OutFns[k].ident # FormatJoin(n, n)
      /\ OutWrappersNamed(FormatJoin(n, n)) = <<>>

InFnsNamed(n) ==
  SelectSeq(InFns, LAMBDA e : e.f.ident = n)

\* A rewritten declaration that passes or returns by value a type the
\* classifier does not report trivial.
TakesNonTrivialByValue(f) ==
  \/ \E i \in 1..Len(f.inputs) :
       f.inputs[i].ty.k = "path" /\ ~IsPod(byvalue_checker, f.inputs[i].ty.name)
  \/ f.output.k = "path" /\ ~IsPod(byvalue_checker, f.output.name)

\* C3 amended: a foreign function named T_T is dropped, with no wrapper
\* item, when its block stands after T's declaration: the foreign block
\* holds one declaration per other foreign function of the input, a
\* declaration named T_T that stays comes from a block standing before T's
\* declaration, and every wrapper item belongs to a declaration that stays.
C3_ElidedAfterDeclaration ==
  Succeeded =>
    /\ Len(OutFns) = Len(InFns) - Len(SelectSeq(InFns, IsDeclaredConstructor))
    /\ Len(OutNeeds("ByValueWrapper")) = Len(SelectSeq(OutFns, TakesNonTrivialByValue))
    /\ \A n \in DeclaredNames :
         Len(SelectSeq(OutFns, LAMBDA f : f.ident = FormatJoin(n, n)))
           <= Len(SelectSeq(InFnsNamed(FormatJoin(n, n)),
                           LAMBDA e : ~DeclaredBefore(n, e.b)))

\* A is declared before a block that declares A_A, and convert succeeds.
C3_Witness ==
  /\ Succeeded
  /\ \E k \in 1..Len(InFns) :
       /\ InFns[k].f.ident = FormatJoin(IdA, IdA)
       /\ DeclaredBefore(IdA, InFns[k].b)

-----------------------------------------------------------------------------
(* C4 *)

HasThis(f) ==
  \E i \in 1..Len(f.inputs) :
    f.inputs[i].pat.k = "ident" /\ f.inputs[i].pat.ident = "this"

StartsWith(n, s) ==
  Len(s) > Len(n) + 1 /\ \A c \in 1..Len(n) : s[c] = n[c]

\* The positions before b of the types whose name starts the name s.
PrefixingBefore(s, b) ==
  { j \in 1..(b - 1) : IsTypeItem(Items[j]) /\ StartsWith(Items[j].name, s) }

\* `this` is renamed to `self`, every other parameter keeps its name.
ThisRenamed(f, o) ==
  \A i \in 1..Len(f.inputs) :
    o.inputs[i].pat =
      IF f.inputs[i].pat.k = "ident" /\ f.inputs[i].pat.ident = "this"
        THEN [k |-> "ident", ident |-> "self"]
        ELSE f.inputs[i].pat

\* C4 as stated: a foreign function named T_m with a parameter `this`, T
\* declared anywhere in the module, is rewritten to identifier m with
\* `this` renamed to `self`; without `this` the name is kept.
C4_DemangledForEveryDeclaredType ==
  Succeeded =>
    \A k \in 1..Len(KeptFns) :
      LET f == KeptFns[k].f
          o == OutFns[k]
      IN  /\ HasThis(f) =>
               /\ \A n \in DeclaredNames :
                    (StartsWith(n, f.ident) /\ f.ident[Len(n) + 1] = "_")
                      => f.ident = FormatJoin(n, o.ident)
               /\ ThisRenamed(f, o)
          /\ ~HasThis(f) => o.ident = f.ident

\* C4 amended: the rewritten identifier of a foreign function that has a
\* parameter `this` is what follows, in its name, the name and separator of
\* the first declared type (in declaration order, among the types declared
\* before the function's block) whose name starts the function's name: m
\* for T_m when that type is T; its `this` is renamed to `self`.  When no
\* type declared before the block starts the name, or the function has no
\* `this`, the declared name is kept.
C4_DemangledByFirstEarlierType ==
  Succeeded =>
    \A k \in 1..Len(KeptFns) :
      LET f == KeptFns[k].f
          o == OutFns[k]
          cands == PrefixingBefore(f.ident, KeptFns[k].b)
          first == CHOOSE j \in cands : \A u \in cands : j <= u
      IN  /\ (HasThis(f) /\ cands # {}) =>
               f.ident = Items[first].name
                           \o <<f.ident[Len(Items[first].name) + 1]>>
                           \o o.ident
          /\ (~HasThis(f) \/ cands = {}) => o.ident = f.ident
          /\ ThisRenamed(f, o)

\* A_m with `this`, in a block after A's declaration, came out as m; and
\* AB_m, after the declarations of A and of AB in this order, came out
\* as the suffix after A.
C4_Witness ==
  /\ Succeeded
  /\ \E k \in 1..Len(KeptFns) :
       /\ KeptFns[k].f.ident = FormatJoin(IdA, <<"m">>)
       /\ HasThis(KeptFns[k].f)
       /\ DeclaredBefore(IdA, KeptFns[k].b)
       /\ OutFns[k].ident = <<"m">>
       /\ OutFns[k].inputs[1].pat.ident = "self"

\* Two declared types start the name of a method: the first declared wins.
C4_WitnessTwoPrefixes ==
  /\ Succeeded
  /\ \E k \in 1..Len(KeptFns) :
       /\ KeptFns[k].f.ident = FormatJoin(IdAB, <<"m">>)
       /\ Cardinality(PrefixingBefore(KeptFns[k].f.ident, KeptFns[k].b)) = 2

-----------------------------------------------------------------------------
(* C5 *)

ParamNonTrivialByValue(a) ==
  a.ty.k = "path" /\ ~IsPod(byvalue_checker, a.ty.name)

\* C5: the by-value-wrapper-needed items are, in order, one per rewritten
\* declaration that passes or returns a non-trivial type by value, and none
\* for the others; each carries the declaration's final identifier, a return
\* conversion when there is a return type, and one descriptor per
\* parameter, in order, of that parameter's final type, which asks for
\* wrapping exactly where the type is non-trivial and passed by value.
C5_OneWrapperPerByValueFunction ==
  Succeeded =>
    LET w == OutNeeds("ByValueWrapper")
        n == SelectSeq(OutFns, TakesNonTrivialByValue)
    IN  /\ Len(w) = Len(n)
        /\ \A k \in 1..Len(w) :
             /\ w[k].ident = n[k].ident
             /\ Len(w[k].params) = Len(n[k].inputs)
             /\ \A i \in 1..Len(n[k].inputs) :
                  /\ w[k].params[i].ty = n[k].inputs[i].ty
                  /\ (w[k].params[i].kind # "unconverted")
                       <=> ParamNonTrivialByValue(n[k].inputs[i])
             /\ w[k].ret.some <=> (n[k].output.k # "default")
             /\ w[k].ret.some =>
                  /\ w[k].ret.conv.ty = n[k].output
                  /\ (w[k].ret.conv.kind # "unconverted")
                       <=> (n[k].output.k = "path"
                            /\ ~IsPod(byvalue_checker, n[k].output.name))

\* One block holds a function taking and returning non-trivial types by
\* value and a function of scalars and references only; a method whose
\* wrapper item carries the demangled identifier.
C5_Witness ==
  /\ Succeeded
  /\ \E k \in 1..Len(OutNeeds("ByValueWrapper")) :
       /\ OutNeeds("ByValueWrapper")[k].ident = <<"f">>
       /\ OutNeeds("ByValueWrapper")[k].ret.conv.kind = "to_unique_ptr"
       /\ OutNeeds("ByValueWrapper")[k].params[1].kind = "from_unique_ptr"
  /\ \E k \in 1..Len(OutFns) : ~TakesNonTrivialByValue(OutFns[k])

C5_WitnessDemangled ==
  /\ Succeeded
  /\ \E k \in 1..Len(OutNeeds("ByValueWrapper")) :
       OutNeeds("ByValueWrapper")[k].ident = <<"m">>

-----------------------------------------------------------------------------
(* C6 *)

RECURSIVE HasRawPointer(_)

\* A raw pointer at some nesting level of the type.
HasRawPointer(ty) ==
  \/ ty.k = "ptr"
  \/ \E i \in 1..Len(ty.args) : HasRawPointer(ty.args[i])

RECURSIVE PointersAsReferences(_)

\* The type with each raw pointer, at every nesting level, replaced by
\* the reference of the same mutability; names left out.
PointersAsReferences(ty) ==
  [k |-> IF ty.k = "ptr" THEN "ref" ELSE ty.k,
   mut |-> ty.mut,
   args |-> [i \in 1..Len(ty.args) |-> PointersAsReferences(ty.args[i])]]

RECURSIVE Structure(_)

\* The structure of a type, names left out.
Structure(ty) ==
  [k |-> ty.k, mut |-> ty.mut,
   args |-> [i \in 1..Len(ty.args) |-> Structure(ty.args[i])]]

\* C6: in every parameter type and return type of a rewritten foreign
\* function no raw pointer remains at any nesting level, and the type is
\* the declared one with each const pointer turned into an immutable
\* reference and each non-const pointer into a mutable reference.
C6_NoRawPointerRemains ==
  Succeeded =>
    \A k \in 1..Len(KeptFns) :
      LET f == KeptFns[k].f
          o == OutFns[k]
      IN  /\ \A i \in 1..Len(f.inputs) :
               /\ ~HasRawPointer(o.inputs[i].ty)
               /\ Structure(o.inputs[i].ty) = PointersAsReferences(f.inputs[i].ty)
          /\ ~HasRawPointer(o.output)
          /\ Structure(o.output) = PointersAsReferences(f.output)

-----------------------------------------------------------------------------
(* C7 *)

HasUnknownForeignItem ==
  \E k \in 1..Len(InFns) : InFns[k].f.kind # "fn"

NoOutput ==
  result.items = <<>> /\ result.additional_cpp_needs = <<>>

\* C7 as stated: once convert has returned, a module without a body gave
\* the empty-input error, a module with a foreign item that is no function
\* gave the unrecognized-foreign-item error, and an error comes with no
\* module and no extra-work item.
C7_UnknownItemAlwaysItsOwnError ==
  pc = "done" =>
    /\ ~bindings.content.some => (Failed /\ result.err = "NoContent")
    /\ (bindings.content.some /\ HasUnknownForeignItem)
         => (Failed /\ result.err = "UnknownForeignItem")
    /\ Failed => NoOutput

\* C7 amended: a module without a body gives the empty-input error; a
\* module with a foreign item that is no function gives the
\* unrecognized-foreign-item error wherever the block stands, unless a
\* must-be-trivial request has failed in pass 1, in which case the
\* unsafe-trivial-request error is returned first; in all three cases no
\* module and no extra-work item is returned, and convert succeeds only
\* when none of the three applies.
C7_AllOrNothing ==
  pc = "done" =>
    /\ ~bindings.content.some => (Failed /\ result.err = "NoContent")
    /\ (bindings.content.some /\ HasUnknownForeignItem)
         => /\ Failed
            /\ result.err = IF UnsafeRequests # {} THEN "UnsafePODType"
                            ELSE "UnknownForeignItem"
    /\ Failed => NoOutput
    /\ Succeeded => (bindings.content.some /\ ~HasUnknownForeignItem)

\* The unrecognized item is met after a type was aliased and functions of
\* its own block were rewritten.
C7_Witness ==
  /\ pc = "done"
  /\ result.err = "UnknownForeignItem"
  /\ types_found # <<>>
  /\ extern_c_mod.items # <<>>
  /\ idx >= 2

-----------------------------------------------------------------------------
(* C8 *)

TypedParams(m) ==
  SelectSeq(m.inputs, LAMBDA x : x.kind = "typed")

\* C8, for the methods named `new` that have a return type: each adds
\* one factory-function-needed item for its block's type and one method
\* make_unique forwarding to {Type}_make_unique, and the argument types
\* and the forwarded names are as many as the constructor's typed
\* parameters.
C8_OneArgumentPerTypedParameter ==
  Succeeded =>
    LET need == OutNeeds("MakeUnique")
        impls == OfKind(Reclassified.content, "impl")
    IN  /\ Len(need) = Len(InNewMethods)
        /\ Len(impls) = Len(InNewMethods)
        /\ \A k \in 1..Len(InNewMethods) :
             LET m == InNewMethods[k].m
                 made == impls[k].items[1]
             IN  /\ need[k].ty = InNewMethods[k].i.self_ty.name
                 /\ made.ident = IdMakeUnique
                 /\ made.block.call = FormatJoin(need[k].ty, IdMakeUnique)
                 /\ Len(made.block.args) = Len(need[k].arg_types)
                 /\ Len(need[k].arg_types) = Len(TypedParams(m))

-----------------------------------------------------------------------------
(* C9 *)

OutAliases ==
  OfKind(OutForeignItems, "verbatim")

OutBindings ==
  SelectSeq(TopLevelOut,
            LAMBDA it : it.kind = "impl" /\ it.trait = "cxx::ExternType")

ReportedTrivial(it) ==
  it.kind = "enum" \/ IsPod(byvalue_checker, it.name)

\* C9: after a successful convert the foreign block of the strict bridge
\* holds one type alias, and the returned items one external-type binding,
\* per struct and enum of the input (in input order), and a binding's tag
\* is Trivial if the classifier reports the type trivial or the type is an
\* enum, Opaque otherwise.
C9_OneAliasAndBindingPerType ==
  Succeeded =>
    /\ Len(OfKind(StrictBridge.content, "foreignmod")) = 1
    /\ Len(OutAliases) = Len(InTypeItems)
    /\ Len(OutBindings) = Len(InTypeItems)
    /\ \A k \in 1..Len(InTypeItems) :
         /\ OutAliases[k].ident = ToIdent(InTypeItems[k].name)
         /\ OutBindings[k].self_ty.name = ToIdent(InTypeItems[k].name)
         /\ OutBindings[k].items[2].tag =
              IF ReportedTrivial(InTypeItems[k]) THEN "Trivial" ELSE "Opaque"

\* A module with an opaque struct, a trivial struct and an enum.
C9_Witness ==
  /\ Succeeded
  /\ \E i, j, k \in 1..Len(Items) :
       /\ Items[i].kind = "struct" /\ ~IsPod(byvalue_checker, Items[i].name)
       /\ Items[j].kind = "struct" /\ IsPod(byvalue_checker, Items[j].name)
       /\ Items[k].kind = "enum"

-----------------------------------------------------------------------------
(* C10 *)

OutTypeItems ==
  SelectSeq(Reclassified.content, IsTypeItem)

\* C10: in the reclassified module a struct the classifier reports opaque
\* has no fields, a struct reported trivial and an enum are the input's
\* item unchanged, and a struct's binding is tagged Opaque exactly when
\* its fields were erased.
C10_OpaqueFieldsErased ==
  Succeeded =>
    /\ Len(OutTypeItems) = Len(InTypeItems)
    /\ \A k \in 1..Len(OutTypeItems) :
         LET in == InTypeItems[k]
             out == OutTypeItems[k]
         IN  /\ (in.kind = "struct" /\ ~IsPod(byvalue_checker, in.name))
                  => out = [in EXCEPT !.fields = FieldsUnit]
             /\ (in.kind = "enum" \/ IsPod(byvalue_checker, in.name))
                  => out = in
             /\ in.kind = "struct"
                  => ((OutBindings[k].items[2].tag = "Opaque")
                        <=> (out.fields.tys = <<>> /\ in.fields.tys # <<>>))

\* A struct with fields came out erased beside a struct that kept its own.
C10_Witness ==
  /\ Succeeded
  /\ \E j, k \in 1..Len(OutTypeItems) :
       /\ InTypeItems[j].kind = "struct"
       /\ OutTypeItems[j].fields = FieldsUnit
       /\ InTypeItems[k].kind = "struct"
       /\ OutTypeItems[k].fields.tys # <<>>

-----------------------------------------------------------------------------
(* C11 *)

InForeignMods ==
  OfKind(Items, "foreignmod")

IsSuffix(t, s) ==
  /\ Len(t) <= Len(s)
  /\ t = SubSeq(s, Len(s) - Len(t) + 1, Len(s))

\* C11: a successful convert returns items whose last two are the
\* reclassified module, with the input module's attributes, visibility and
\* name, then the module cxxbridge; cxxbridge holds exactly one foreign
\* block, its last item: the input's first foreign block when there is
\* one, a blank one otherwise; the block holds the rewritten functions of
\* all the input's blocks, in input order, before the includes and aliases.
C11_TwoModulesOneForeignBlock ==
  Succeeded =>
    /\ Len(result.items) >= 2
    /\ \A k \in 1..Len(TopLevelOut) : TopLevelOut[k].kind # "mod"
    /\ Reclassified.kind = "mod"
    /\ Reclassified.ident = bindings.ident
    /\ Reclassified.vis = bindings.vis
    /\ Reclassified.attrs = bindings.attrs
    /\ StrictBridge = BridgeMod(StrictBridge.content)
    /\ LET blocks == OfKind(StrictBridge.content, "foreignmod")
       IN  /\ Len(blocks) = 1
           /\ StrictBridge.content[Len(StrictBridge.content)] = blocks[1]
           /\ blocks[1].id = IF InForeignMods = <<>> THEN BlankExternCMod.id
                             ELSE InForeignMods[1].id
           /\ Len(OutFns) = Len(KeptFns)
           /\ SubSeq(blocks[1].items, 1, Len(OutFns)) = OutFns
           /\ \A k \in 1..Len(OutFns) :
                /\ IsSuffix(OutFns[k].ident, KeptFns[k].f.ident)
                /\ Len(OutFns[k].inputs) = Len(KeptFns[k].f.inputs)
                /\ (OutFns[k].output.k = "default")
                     <=> (KeptFns[k].f.output.k = "default")

\* Two foreign blocks with functions were merged into the first.
C11_Witness ==
  /\ Succeeded
  /\ Len(InForeignMods) >= 2
  /\ InForeignMods[1].id # InForeignMods[2].id
  /\ \E k \in 1..Len(KeptFns) : Items[KeptFns[k].b].id = InForeignMods[2].id
  /\ KeptFns[1].b < KeptFns[Len(KeptFns)].b

\* A module without a foreign block got a blank one.
C11_WitnessBlank ==
  /\ Succeeded
  /\ InForeignMods = <<>>
  /\ InTypeItems # <<>>

-----------------------------------------------------------------------------
(* C12 *)

AttrPaths(attrs) ==
  [i \in 1..Len(attrs) |-> attrs[i].path]

\* C12: a rewritten foreign function carries no link_name attribute and
\* keeps its other attributes, in order; after them it carries a rust_name
\* attribute with the caller's new name exactly when the rename map has an
\* entry for the function's declared name, whatever its rewritten
\* identifier is.
C12_AttributesStrippedAndRenamed ==
  Succeeded =>
    \A k \in 1..Len(KeptFns) :
      LET f == KeptFns[k].f
          o == OutFns[k]
          kept == SelectSeq(f.attrs, LAMBDA a : a.path # "link_name")
      IN  /\ \A i \in 1..Len(o.attrs) : o.attrs[i].path # "link_name"
          /\ SubSeq(o.attrs, 1, Len(kept)) = kept
          /\ IF f.ident \in DOMAIN renames
               THEN o.attrs = Append(kept, [path |-> "rust_name",
                                            val |-> renames[f.ident]])
               ELSE o.attrs = kept

\* A_m carried link_name and doc, was demangled to m and is renamed by an
\* entry keyed A_m.
C12_Witness ==
  /\ Succeeded
  /\ \E k \in 1..Len(KeptFns) :
       /\ KeptFns[k].f.ident \in DOMAIN renames
       /\ OutFns[k].ident # KeptFns[k].f.ident
       /\ AttrPaths(KeptFns[k].f.attrs) = <<"link_name", "doc">>
       /\ AttrPaths(OutFns[k].attrs) = <<"doc", "rust_name">>

\* An entry keyed by the demangled name m leaves the method m alone.
C12_WitnessDemangledKey ==
  /\ Succeeded
  /\ \E k \in 1..Len(KeptFns) :
       /\ OutFns[k].ident \in DOMAIN renames
       /\ KeptFns[k].f.ident \notin DOMAIN renames
       /\ AttrPaths(OutFns[k].attrs) = <<"doc">>

-----------------------------------------------------------------------------
(* C13 *)

IsPrefixSeq(t, s) ==
  Len(t) <= Len(s) /\ t = SubSeq(s, 1, Len(t))

\* The names of the structs and enums among the first n items of the input.
RECURSIVE TypeNamesUpTo(_)

TypeNamesUpTo(n) ==
  IF n <= 0 THEN <<>>
  ELSE IF IsTypeItem(Items[n])
    THEN Append(TypeNamesUpTo(n - 1), Items[n].name)
    ELSE TypeNamesUpTo(n - 1)

\* A step leaves the ledger alone or appends one entry, the name of the
\* struct or enum the loop is at.
LedgerStep ==
  \/ types_found' = types_found
  \/ /\ AtItem("struct") \/ AtItem("enum")
     /\ types_found' = Append(types_found, CurrentItem.name)

\* The ledger holds the names of the structs and enums processed so far, in
\* input order.
LedgerIsProcessedTypes ==
  (pc \in {"items", "done"} /\ bindings.content.some) =>
    types_found = TypeNamesUpTo(IF idx > Len(Items) THEN Len(Items) ELSE idx - 1)

\* The ledger entries that start the name s.
LedgerPrefixing(s) ==
  { t \in 1..Len(types_found) : StartsWith(types_found[t], s) }

\* A rewritten method whose name several types declared before its block
\* start is cut after the one declared first.
FirstDiscoveredWins ==
  Succeeded =>
    \A k \in 1..Len(KeptFns) :
      LET f == KeptFns[k].f
          cands == PrefixingBefore(f.ident, KeptFns[k].b)
          first == CHOOSE j \in cands : \A u \in cands : j <= u
      IN  (HasThis(f) /\ Cardinality(cands) > 1) =>
            /\ OutFns[k].ident =
                 SubSeq(f.ident, Len(Items[first].name) + 2, Len(f.ident))
            /\ \A u \in cands \ {first} :
                 Len(Items[u].name) # Len(Items[first].name) =>
                   OutFns[k].ident #
                     SubSeq(f.ident, Len(Items[u].name) + 2, Len(f.ident))

\* C13: during convert the ledger only grows, by one entry per struct or
\* enum processed, in input order, never losing or reordering an entry;
\* and a method whose name more than one ledger entry prefixes gets the
\* suffix after the entry discovered first.
C13_LedgerAppendOnlyFirstMatchWins ==
  /\ [][LedgerStep /\ IsPrefixSeq(types_found, types_found')]_vars
  /\ [](LedgerIsProcessedTypes /\ FirstDiscoveredWins)

\* A, then AB, then AB_m with `this`: both entries prefix the name and
\* the identifier is the suffix after A.
C13_Witness ==
  /\ Succeeded
  /\ types_found = <<IdA, IdAB>>
  /\ \E k \in 1..Len(KeptFns) :
       /\ KeptFns[k].f.ident = FormatJoin(IdAB, <<"m">>)
       /\ HasThis(KeptFns[k].f)
       /\ LedgerPrefixing(KeptFns[k].f.ident) = {1, 2}
       /\ OutFns[k].ident = <<"_", "m">>

\* AB, then A, then AB_m: the first entry is AB and the identifier is m.
C13_WitnessOtherOrder ==
  /\ Succeeded
  /\ types_found = <<IdAB, IdA>>
  /\ \E k \in 1..Len(KeptFns) :
       /\ KeptFns[k].f.ident = FormatJoin(IdAB, <<"m">>)
       /\ OutFns[k].ident = <<"m">>

====
